---------------------------- MODULE Spec2Model ----------------------------
(***************************************************************************)
(* TeamCarpool (src/App.tsx): the carpool generator of EventDetail, the    *)
(* manual reassignment of CarpoolBoard and the localStorage stores they    *)
(* read and write.                                                         *)
(***************************************************************************)
EXTENDS Integers, Sequences, FiniteSets, TLC

VARIABLES
  view,               \* App state `view`: the screen that is shown
  players,            \* App state `players` (allPlayers): the roster, in order
  allDrivers,         \* App state `drivers` (allDrivers)
  events,             \* App state `events`: the ids of the events
  allEligibility,     \* App state `eligibility` (allEligibility): the rule list
  dbAttendance,       \* localStorage tc_attendance, all events
  dbEventDrivers,     \* localStorage tc_eventDrivers, all events
  dbAssignments,      \* localStorage tc_assignments, all events
  currentEventId,     \* App state `currentEventId` (EventDetail's eventId)
  assignments,        \* App state `assignments`: the prop of CarpoolBoard
  eventDrivers,       \* App state `eventDrivers`: the prop of CarpoolBoard
  localAttendance,    \* EventDetail state `localAttendance`
  localEventDrivers,  \* EventDetail state `localEventDrivers`
  draggedPlayerId,    \* CarpoolBoard state `draggedPlayerId`
  lastCall            \* the last call of generateCarpool, handleDrop, createEvent
                      \* or deleteEvent: its arguments, the locals it ended with
                      \* and its alert

vars == <<view, players, allDrivers, events, allEligibility, dbAttendance, dbEventDrivers, dbAssignments,
          currentEventId, assignments, eventDrivers, localAttendance,
          localEventDrivers, draggedPlayerId, lastCall>>

-----------------------------------------------------------------------------
(* Bounds of the model *)

MaxSeats == 2
MaxChildSeats == 1

PlayerIds == <<"p1", "p2", "p3">>
DriverIds == <<"d1", "d2">>
Seeds == {"s1", "s2"}

\* The drivers whose checkbox of the drivers tab is clicked
ToggledDrivers == {"d1"}

\* The ids generateId gives to events, and the length of the events list
EventIds == {"e1", "e2", "e3"}
MaxEvents == 2
Preferences == {"none", "prefer", "always"}
Directions == {"to", "from", "both"}

UNASSIGNED == "unassigned"
NULL == "null"

-----------------------------------------------------------------------------
(* Array helpers of JavaScript *)

\* Array.prototype.filter
Filter(seq, Test(_)) == SelectSeq(seq, Test)

\* Array.prototype.findIndex, 1-based; 0 when nothing matches (find: undefined)
FindIndex(seq, Test(_)) ==
  IF \E i \in DOMAIN seq : Test(seq[i])
  THEN CHOOSE i \in DOMAIN seq : Test(seq[i]) /\ \A j \in 1..(i-1) : ~Test(seq[j])
  ELSE 0

Range(seq) == {seq[i] : i \in DOMAIN seq}

\* An object has the key: reading a key it lacks gives undefined, which
\* compares false with every number and turns into NaN under --; a NaN
\* counter is modelled as a key the object lacks as well
Has(obj, key) == key \in DOMAIN obj

\* An object literal with the key, or without it
Field(key, present, value) ==
  IF present THEN key :> value ELSE [k \in {} |-> value]


-----------------------------------------------------------------------------
(* generateCarpool: the helpers and the loop *)

\* goingPlayers with needsRide derived from isGoing instead of read
goingPlayersIgnoringNeedsRide ==
  Filter(players, LAMBDA p :
    LET i == FindIndex(localAttendance, LAMBDA a : a.playerId = p.id)
    IN  i # 0 /\ localAttendance[i].isGoing)

\* The participants taken from the attendance records instead of the roster:
\* a record without a roster entry gives a player without a child seat
goingPlayersFromAttendance(attendance) ==
  LET going == Filter(attendance, LAMBDA a : a.isGoing /\ a.needsRide)
  IN  [j \in DOMAIN going |->
         LET i == FindIndex(players, LAMBDA p : p.id = going[j].playerId)
         IN  IF i # 0 THEN players[i]
             ELSE [id |-> going[j].playerId, needsChildSeat |-> FALSE]]

\* The filter of allPlayers, for a list of attendance records
goingPlayersOf(attendance) ==
  Filter(players, LAMBDA p :
    LET i == FindIndex(attendance, LAMBDA a : a.playerId = p.id)
    IN  i # 0 /\ attendance[i].isGoing /\ attendance[i].needsRide)

\* 1. Get Participants
goingPlayers == goingPlayersOf(localAttendance)

activeDrivers == Filter(localEventDrivers, LAMBDA d : d.isDriving)

\* isAllowed looking the rule up under the driver's id twice: no rule matches
isAllowedWrongKey(did, pid) ==
  LET i == FindIndex(allEligibility, LAMBDA e : e.driverId = did /\ e.playerId = did)
  IN  IF i # 0 THEN allEligibility[i].allowed ELSE TRUE

\* Helper to check if driver allows player: the first matching rule decides
isAllowed(did, pid) ==
  LET i == FindIndex(allEligibility, LAMBDA e : e.driverId = did /\ e.playerId = pid)
  IN  IF i # 0 THEN allEligibility[i].allowed ELSE TRUE

getPreference(did, pid) ==
  LET i == FindIndex(allEligibility, LAMBDA e : e.driverId = did /\ e.playerId = pid)
  IN  IF i # 0 THEN allEligibility[i].preference ELSE "none"

\* Buckets that start from the seats the board's assignments leave free
MakeBucketsCountingBoard(drivers) ==
  [i \in DOMAIN drivers |->
     [driverId            |-> drivers[i].driverId,
      remainingSeats      |-> drivers[i].availableSeatsTotal
                                - Len(Filter(assignments,
                                             LAMBDA a : a.driverId = drivers[i].driverId)),
      remainingChildSeats |-> drivers[i].availableChildSeats,
      assignedPlayerIds   |-> <<>>]]

\* Prepare driver buckets
MakeBuckets(drivers) ==
  [i \in DOMAIN drivers |->
     IF Has(drivers[i], "availableSeatsTotal") /\ Has(drivers[i], "availableChildSeats")
     THEN [driverId            |-> drivers[i].driverId,
           remainingSeats      |-> drivers[i].availableSeatsTotal,
           remainingChildSeats |-> drivers[i].availableChildSeats,
           assignedPlayerIds   |-> <<>>]
     ELSE [driverId |-> drivers[i].driverId, assignedPlayerIds |-> <<>>]
          @@ Field("remainingSeats", Has(drivers[i], "availableSeatsTotal"),
                   IF Has(drivers[i], "availableSeatsTotal")
                   THEN drivers[i].availableSeatsTotal ELSE 0)
          @@ Field("remainingChildSeats", Has(drivers[i], "availableChildSeats"),
                   IF Has(drivers[i], "availableChildSeats")
                   THEN drivers[i].availableChildSeats ELSE 0)]

\* The comparator with its two results swapped
CompareChildSeatReversed(a, b) ==
  IF a.needsChildSeat = b.needsChildSeat THEN 0
  ELSE IF a.needsChildSeat THEN 1 ELSE -1

\* The comparator of the sort: negative when a goes first
CompareChildSeat(a, b) ==
  IF a.needsChildSeat = b.needsChildSeat THEN 0
  ELSE IF a.needsChildSeat THEN -1 ELSE 1

\* Array.prototype.sort is stable: x goes after every element it does not precede
RECURSIVE InsertSorted(_, _)
InsertSorted(sorted, x) ==
  IF sorted = <<>> THEN <<x>>
  ELSE IF CompareChildSeat(x, Head(sorted)) < 0 THEN <<x>> \o sorted
  ELSE <<Head(sorted)>> \o InsertSorted(Tail(sorted), x)

RECURSIVE SortPlayers(_)
SortPlayers(seq) ==
  IF seq = <<>> THEN <<>>
  ELSE InsertSorted(SortPlayers(SubSeq(seq, 1, Len(seq) - 1)), seq[Len(seq)])

\* The loop run over goingPlayers as they are
sortedPlayersUnsorted == goingPlayers

sortedPlayers == SortPlayers(goingPlayers)

BaseScore == 10
AlwaysBonus == 50
PreferBonus == 20

\* Scoring
Score(did, pid) ==
  LET pref == getPreference(did, pid)
  IN  BaseScore + (IF pref = "always" THEN AlwaysBonus ELSE 0)
                + (IF pref = "prefer" THEN PreferBonus ELSE 0)

\* The forEach callback without its first early return
FeasibleIgnoringSeats(bucket, player) ==
  /\ ~(player.needsChildSeat /\ bucket.remainingChildSeats <= 0)
  /\ isAllowed(bucket.driverId, player.id)

\* The child-seat test applied to every player, whether it needs one or not
FeasibleChildSeatForAll(bucket, player) ==
  /\ ~(Has(bucket, "remainingSeats") /\ bucket.remainingSeats <= 0)
  /\ ~(Has(bucket, "remainingChildSeats") /\ bucket.remainingChildSeats <= 0)
  /\ isAllowed(bucket.driverId, player.id)

\* The three early returns of the forEach callback
Feasible(bucket, player) ==
  /\ ~(Has(bucket, "remainingSeats") /\ bucket.remainingSeats <= 0)
  /\ ~(player.needsChildSeat /\ Has(bucket, "remainingChildSeats")
                             /\ bucket.remainingChildSeats <= 0)
  /\ isAllowed(bucket.driverId, player.id)

\* buckets.forEach with `score >= bestScore`: the last of the best buckets wins
RECURSIVE FindBestDriverLastWins(_, _, _, _, _)
FindBestDriverLastWins(bkts, player, idx, bestDriverIndex, bestScore) ==
  IF idx > Len(bkts) THEN bestDriverIndex
  ELSE IF ~Feasible(bkts[idx], player)
       THEN FindBestDriverLastWins(bkts, player, idx + 1, bestDriverIndex, bestScore)
       ELSE LET score == Score(bkts[idx].driverId, player.id)
            IN  IF score >= bestScore
                THEN FindBestDriverLastWins(bkts, player, idx + 1, idx, score)
                ELSE FindBestDriverLastWins(bkts, player, idx + 1, bestDriverIndex, bestScore)

\* buckets.forEach: bestDriverIndex is 1-based here, 0 for the code's -1
RECURSIVE FindBestDriver(_, _, _, _, _)
FindBestDriver(bkts, player, idx, bestDriverIndex, bestScore) ==
  IF idx > Len(bkts) THEN bestDriverIndex
  ELSE IF ~Feasible(bkts[idx], player)
       THEN FindBestDriver(bkts, player, idx + 1, bestDriverIndex, bestScore)
       ELSE LET score == Score(bkts[idx].driverId, player.id)
            IN  IF score > bestScore
                THEN FindBestDriver(bkts, player, idx + 1, idx, score)
                ELSE FindBestDriver(bkts, player, idx + 1, bestDriverIndex, bestScore)

\* generateId: Math.random's n-th draw from the generator state `seed`
generateId(seed, n) == <<seed, n>>

NewAssignment(id, eid, did, pid) ==
  [id |-> id, eventId |-> eid, driverId |-> did, playerId |-> pid, direction |-> "both"]

\* Commit without the two decrements
CommitWithoutDecrement(bkts, best, player) ==
  [bkts EXCEPT ![best] = [@ EXCEPT !.assignedPlayerIds = Append(@, player.id)]]

\* Commit taking a child seat for every player
CommitAlwaysTakesChildSeat(bkts, best, player) ==
  [bkts EXCEPT ![best] =
     [@ EXCEPT !.remainingSeats = @ - 1,
               !.remainingChildSeats = @ - 1,
               !.assignedPlayerIds = Append(@, player.id)]]

\* Assign: the winning bucket loses a seat (and a child seat) and gets the player
Commit(bkts, best, player) ==
  [bkts EXCEPT ![best] =
     [k \in DOMAIN bkts[best] |->
        CASE k = "remainingSeats" -> bkts[best][k] - 1
          [] k = "remainingChildSeats" ->
               IF player.needsChildSeat THEN bkts[best][k] - 1 ELSE bkts[best][k]
          [] k = "assignedPlayerIds" -> Append(bkts[best][k], player.id)
          [] OTHER -> bkts[best][k]]]

\* ProcessPlayer breaking ties between equal scores at random
ProcessPlayerRandomTie(acc, player, id, eid) ==
  LET best == IF id[1] = "s1" THEN FindBestDriver(acc.buckets, player, 1, 0, -1)
              ELSE FindBestDriverLastWins(acc.buckets, player, 1, 0, -1)
  IN  IF best # 0
      THEN [buckets        |-> Commit(acc.buckets, best, player),
            newAssignments |-> Append(acc.newAssignments,
                                 NewAssignment(id, eid, acc.buckets[best].driverId, player.id)),
            unassignedIds  |-> acc.unassignedIds,
            bucketsBefore  |-> Append(acc.bucketsBefore, acc.buckets)]
      ELSE [buckets        |-> acc.buckets,
            newAssignments |-> Append(acc.newAssignments,
                                 NewAssignment(id, eid, UNASSIGNED, player.id)),
            unassignedIds  |-> Append(acc.unassignedIds, player.id),
            bucketsBefore  |-> Append(acc.bucketsBefore, acc.buckets)]

\* ProcessPlayer without the unassigned record
ProcessPlayerDropsUnassigned(acc, player, id, eid) ==
  LET best == FindBestDriver(acc.buckets, player, 1, 0, -1)
  IN  IF best # 0
      THEN [buckets        |-> Commit(acc.buckets, best, player),
            newAssignments |-> Append(acc.newAssignments,
                                 NewAssignment(id, eid, acc.buckets[best].driverId, player.id)),
            unassignedIds  |-> acc.unassignedIds,
            bucketsBefore  |-> Append(acc.bucketsBefore, acc.buckets)]
      ELSE [buckets        |-> acc.buckets,
            newAssignments |-> acc.newAssignments,
            unassignedIds  |-> Append(acc.unassignedIds, player.id),
            bucketsBefore  |-> Append(acc.bucketsBefore, acc.buckets)]

\* One iteration of `for (const player of sortedPlayers)`; bucketsBefore
\* records the buckets as the iteration found them
ProcessPlayer(acc, player, id, eid) ==
  LET best == FindBestDriver(acc.buckets, player, 1, 0, -1)
  IN  IF best # 0
      THEN [buckets        |-> Commit(acc.buckets, best, player),
            newAssignments |-> Append(acc.newAssignments,
                                 NewAssignment(id, eid, acc.buckets[best].driverId, player.id)),
            unassignedIds  |-> acc.unassignedIds,
            bucketsBefore  |-> Append(acc.bucketsBefore, acc.buckets)]
      ELSE [buckets        |-> acc.buckets,
            newAssignments |-> Append(acc.newAssignments,
                                 NewAssignment(id, eid, UNASSIGNED, player.id)),
            unassignedIds  |-> Append(acc.unassignedIds, player.id),
            bucketsBefore  |-> Append(acc.bucketsBefore, acc.buckets)]

\* The loop over the first k sorted players
RECURSIVE ProcessPlayers(_, _, _, _, _)
ProcessPlayers(sorted, seed, eid, bkts, k) ==
  IF k = 0
  THEN [buckets |-> bkts, newAssignments |-> <<>>, unassignedIds |-> <<>>,
        bucketsBefore |-> <<>>]
  ELSE ProcessPlayer(ProcessPlayers(sorted, seed, eid, bkts, k - 1),
                     sorted[k], generateId(seed, k), eid)


-----------------------------------------------------------------------------
(* The handlers *)

\* No run of the generator on the displayed event while it had no assignments
NoRun ==
  [made |-> FALSE, attendance |-> <<>>, activeDrivers |-> <<>>,
   assignments |-> <<>>, unassignedIds |-> <<>>]

\* An assignment list without the ids
WithoutIds(seq) ==
  [j \in DOMAIN seq |->
     [eventId |-> seq[j].eventId, driverId |-> seq[j].driverId,
      playerId |-> seq[j].playerId, direction |-> seq[j].direction]]

NoCall ==
  [op |-> "none", eventId |-> NULL, attendance |-> <<>>, activeDrivers |-> <<>>,
   sortedPlayers |-> <<>>, newAssignments |-> <<>>, unassignedIds |-> <<>>,
   buckets |-> <<>>, bucketsBefore |-> <<>>, alert |-> "", unassignedCount |-> 0,
   repeated |-> FALSE, previousOp |-> "none", playerId |-> NULL,
   targetDriverId |-> NULL, fresh |-> NoRun, removed |-> <<>>]

NoDriversAlert == "No drivers marked for this event!"
GeneratedAlert == "Carpool generated. N players unassigned."

\* The last call was a run of the generator that got past the driver check
Generated == lastCall.op = "generateCarpool" /\ lastCall.alert = GeneratedAlert

OfEvent(seq, eid) == Filter(seq, LAMBDA a : a.eventId = eid)

\* The driver check that lets every run through
NoDriversNeverDetected(active) == FALSE

\* activeDrivers.length === 0
NoDriversAvailable(active) == Len(active) = 0

\* otherAssignments left out of what is stored
OtherAssignmentsForgetsAll(eid) == <<>>

\* otherAssignments keeping the event's own records: a merge
OtherAssignmentsKeepsAll(eid) == dbAssignments

\* generateCarpool's otherAssignments: the stored records of the other events
OtherAssignments(eid) == Filter(dbAssignments, LAMBDA a : a.eventId # eid)

\* otherEvents keeping the event's own records
OtherEventsKeepsAll(eid) == dbAssignments

\* handleDrop's otherEvents
OtherEvents(eid) == Filter(dbAssignments, LAMBDA a : a.eventId # eid)

\* filtered keeping the dragged player's old record
RemoveOldKeepsAll(asgs, pid) == asgs

\* filtered with === for !==: only the dragged player's old record is kept
RemoveOldWrongTest(asgs, pid) == Filter(asgs, LAMBDA a : a.playerId = pid)

\* handleDrop's filtered: Remove old assignment
RemoveOld(asgs, pid) == Filter(asgs, LAMBDA a : a.playerId # pid)

\* navigateToEvent's three setState calls, and the two effects of EventDetail
\* that copy the props into the local state
LoadEvent(eid) ==
  /\ view' = "eventDetail"
  /\ currentEventId' = eid
  /\ assignments' = OfEvent(dbAssignments', eid)
  /\ eventDrivers' = OfEvent(dbEventDrivers', eid)
  /\ localAttendance' = OfEvent(dbAttendance', eid)
  /\ localEventDrivers' = OfEvent(dbEventDrivers', eid)

\* navigateToEvent from the events list or the dashboard: EventDetail and
\* CarpoolBoard are mounted anew
navigateToEvent(eid) ==
  /\ view = "events"
  /\ UNCHANGED <<players, allDrivers, events, allEligibility, dbAttendance, dbEventDrivers, dbAssignments>>
  /\ LoadEvent(eid)
  /\ draggedPlayerId' = NULL
  /\ lastCall' = NoCall

generateCarpool ==
  /\ view = "eventDetail"
  /\ \E active \in {activeDrivers}, sorted \in {sortedPlayers} :
       IF NoDriversAvailable(active)
       THEN /\ lastCall' = [NoCall EXCEPT !.op = "generateCarpool",
                                          !.eventId = currentEventId,
                                          !.previousOp = lastCall.op,
                                          !.fresh = lastCall.fresh,
                                          !.attendance = localAttendance,
                                          !.alert = NoDriversAlert]
            /\ UNCHANGED <<view, players, allDrivers, events, allEligibility, dbAttendance,
                           dbEventDrivers,
                           dbAssignments, currentEventId, assignments, eventDrivers,
                           localAttendance, localEventDrivers, draggedPlayerId>>
       ELSE \E seed \in Seeds :
              \E run \in {ProcessPlayers(sorted, seed, currentEventId,
                                         MakeBuckets(active), Len(sorted))} :
                  /\ dbAssignments' = OtherAssignments(currentEventId) \o run.newAssignments
                  /\ UNCHANGED <<players, allDrivers, events, allEligibility, dbAttendance, dbEventDrivers,
                                 draggedPlayerId>>
                  /\ LoadEvent(currentEventId)
                  /\ lastCall' = [NoCall EXCEPT !.op = "generateCarpool",
                                                !.eventId = currentEventId,
                                                !.attendance = localAttendance,
                                                !.activeDrivers = active,
                                                !.sortedPlayers = sorted,
                                                !.newAssignments = run.newAssignments,
                                                !.unassignedIds = run.unassignedIds,
                                                !.buckets = run.buckets,
                                                !.bucketsBefore = run.bucketsBefore,
                                                !.alert = GeneratedAlert,
                                                !.unassignedCount = Len(run.unassignedIds),
                                                !.previousOp = lastCall.op,
                                                !.fresh =
                                                   IF assignments = <<>>
                                                   THEN [made |-> TRUE,
                                                         attendance |-> localAttendance,
                                                         activeDrivers |-> active,
                                                         assignments |-> WithoutIds(run.newAssignments),
                                                         unassignedIds |-> run.unassignedIds]
                                                   ELSE lastCall.fresh,
                                                !.repeated =
                                                   /\ Generated
                                                   /\ lastCall.eventId = currentEventId
                                                   /\ lastCall.attendance = localAttendance
                                                   /\ lastCall.activeDrivers = active]

\* The toggle without the two lines that set needsRide
ToggledAttendanceUncoupled(existing, field) ==
  [existing EXCEPT ![field] = ~existing[field]]

\* toggleAttendance's updated: if not going, cannot need ride; if going,
\* default need ride is true
ToggledAttendance(existing, field) ==
  LET updated == [existing EXCEPT ![field] = ~existing[field]]
  IN  IF field = "isGoing" /\ ~updated.isGoing THEN [updated EXCEPT !.needsRide = FALSE]
      ELSE IF field = "isGoing" /\ updated.isGoing THEN [updated EXCEPT !.needsRide = TRUE]
      ELSE updated

\* The record the handlers of the attendance tab find for a player, or the
\* default they take when there is none
AttendanceOrDefault(pid) ==
  LET i == FindIndex(localAttendance, LAMBDA a : a.playerId = pid)
  IN  IF i # 0 THEN localAttendance[i]
      ELSE [eventId |-> currentEventId, playerId |-> pid,
            isGoing |-> FALSE, needsRide |-> TRUE]

\* toggleAttendance of the attendance tab: the button (isGoing) of a roster
\* player, the Needs Ride checkbox shown for a player that is going
toggleAttendance(pid, field) ==
  /\ view = "eventDetail"
  /\ \E i \in DOMAIN players : players[i].id = pid
  /\ field = "needsRide" => AttendanceOrDefault(pid).isGoing
  /\ localAttendance' =
       Filter(localAttendance, LAMBDA a : a.playerId # pid)
         \o <<ToggledAttendance(AttendanceOrDefault(pid), field)>>
  /\ UNCHANGED <<players, allDrivers, events, allEligibility, dbAttendance, dbEventDrivers,
                 dbAssignments, currentEventId, assignments, eventDrivers,
                 localEventDrivers, draggedPlayerId, lastCall, view>>

\* saveAttendance: Save Changes of the attendance tab, then refreshData
saveAttendance ==
  /\ view = "eventDetail"
  /\ dbAttendance' =
       Filter(dbAttendance, LAMBDA a : a.eventId # currentEventId) \o localAttendance
  /\ UNCHANGED <<players, allDrivers, events, allEligibility, dbEventDrivers, dbAssignments,
                 draggedPlayerId, lastCall>>
  /\ LoadEvent(currentEventId)

\* toggleDriver of the drivers tab: the checkbox (field isDriving) of any
\* driver, the direction select (shown for a driving driver)
toggleDriver(did, field, value) ==
  /\ view = "eventDetail"
  /\ \E i \in DOMAIN allDrivers : allDrivers[i].id = did
  /\ LET driverDef == allDrivers[FindIndex(allDrivers, LAMBDA d : d.id = did)]
         i == FindIndex(localEventDrivers, LAMBDA d : d.driverId = did)
         existing == IF i # 0 THEN localEventDrivers[i]
                     ELSE [eventId |-> currentEventId, driverId |-> did,
                           isDriving |-> FALSE, direction |-> "both",
                           availableSeatsTotal |-> driverDef.maxSeatsTotal,
                           availableChildSeats |-> driverDef.maxChildSeats]
         updated == IF field = "isDriving"
                    THEN [existing EXCEPT !.isDriving = ~existing.isDriving]
                    ELSE [existing EXCEPT !.direction = value]
     IN  /\ field = "direction" => i # 0 /\ localEventDrivers[i].isDriving
         /\ localEventDrivers' =
              Filter(localEventDrivers, LAMBDA d : d.driverId # did) \o <<updated>>
  /\ UNCHANGED <<lastCall, view>>
  /\ UNCHANGED <<players, allDrivers, events, allEligibility, dbAttendance, dbEventDrivers,
                 dbAssignments, currentEventId, assignments, eventDrivers,
                 localAttendance, draggedPlayerId>>

\* The columns of the board: Unassigned, and one per saved driving driver
DropTargets ==
  {UNASSIGNED} \cup {d.driverId : d \in {x \in Range(eventDrivers) : x.isDriving}}

\* onDragStart of a PlayerCard: a card is drawn for an assignment of a column
\* whose player is in the roster
dragStart(pid) ==
  /\ view = "eventDetail"
  /\ \E a \in Range(assignments) : a.playerId = pid /\ a.driverId \in DropTargets
  /\ \E i \in DOMAIN players : players[i].id = pid
  /\ draggedPlayerId' = pid
  /\ UNCHANGED <<lastCall, view>>
  /\ UNCHANGED <<players, allDrivers, events, allEligibility, dbAttendance, dbEventDrivers, dbAssignments,
                 currentEventId, assignments, eventDrivers, localAttendance,
                 localEventDrivers>>

handleDrop(targetDriverId, seed) ==
  /\ view = "eventDetail"
  /\ assignments # <<>>
  /\ IF draggedPlayerId = NULL
     THEN UNCHANGED vars
     ELSE LET filtered == RemoveOld(assignments, draggedPlayerId)
              newAssign == NewAssignment(generateId(seed, 1), currentEventId,
                                         targetDriverId, draggedPlayerId)
          IN  /\ dbAssignments' = OtherEvents(currentEventId) \o filtered \o <<newAssign>>
              /\ draggedPlayerId' = NULL
              /\ UNCHANGED <<players, allDrivers, events, allEligibility, dbAttendance, dbEventDrivers>>
              /\ LoadEvent(currentEventId)
              /\ lastCall' = [NoCall EXCEPT !.op = "handleDrop",
                                            !.eventId = currentEventId,
                                            !.previousOp = lastCall.op,
                                            !.fresh = lastCall.fresh,
                                            !.playerId = draggedPlayerId,
                                            !.targetDriverId = targetDriverId,
                                            !.newAssignments = <<newAssign>>]

\* onBack of EventDetail, or Events of the top bar: the events list is shown
\* and EventDetail is unmounted with its board, so their state is gone
onBack ==
  /\ view = "eventDetail"
  /\ view' = "events"
  /\ localAttendance' = <<>>
  /\ localEventDrivers' = <<>>
  /\ draggedPlayerId' = NULL
  /\ lastCall' = NoCall
  /\ UNCHANGED <<players, allDrivers, events, allEligibility, dbAttendance, dbEventDrivers,
                 dbAssignments, currentEventId, assignments, eventDrivers>>

\* createEvent of the events list; id is what generateId returned
createEvent(id) ==
  /\ view = "events"
  /\ Len(events) < MaxEvents
  /\ events' = <<id>> \o events
  /\ lastCall' = [NoCall EXCEPT !.op = "createEvent", !.eventId = id]
  /\ UNCHANGED <<view, players, allDrivers, allEligibility, dbAttendance, dbEventDrivers,
                 dbAssignments, currentEventId, assignments, eventDrivers,
                 localAttendance, localEventDrivers, draggedPlayerId>>

\* The clean-up of tc_assignments that forgets to filter
AssignmentsCleanedUpKeepsAll(id) == dbAssignments

\* deleteEvent's clean-up of tc_assignments
AssignmentsCleanedUp(id) == Filter(dbAssignments, LAMBDA a : a.eventId # id)

\* deleteEvent of the events list, on the row of event id; confirmed is the
\* answer to confirm()
deleteEvent(id, confirmed) ==
  /\ view = "events"
  /\ \E i \in DOMAIN events : events[i] = id
  /\ IF ~confirmed
     THEN UNCHANGED vars
     ELSE /\ events' = Filter(events, LAMBDA ev : ev # id)
          /\ dbAttendance' = Filter(dbAttendance, LAMBDA a : a.eventId # id)
          /\ dbEventDrivers' = Filter(dbEventDrivers, LAMBDA a : a.eventId # id)
          /\ dbAssignments' = AssignmentsCleanedUp(id)
          /\ lastCall' = [NoCall EXCEPT !.op = "deleteEvent", !.eventId = id,
                                        !.removed = OfEvent(dbAssignments, id)]
          /\ UNCHANGED <<view, players, allDrivers, allEligibility, currentEventId,
                         assignments, eventDrivers, localAttendance,
                         localEventDrivers, draggedPlayerId>>


-----------------------------------------------------------------------------
(* The stored data the handlers start from *)

\* The records of seq[i] for the i of idx, in the order of idx
RECURSIVE Pick(_, _)
Pick(f, n) == IF n = 0 THEN <<>> ELSE Pick(f, n - 1) \o f[n]

Rosters ==
  {[i \in DOMAIN PlayerIds |-> [id |-> PlayerIds[i], needsChildSeat |-> c[i]]] :
     c \in [DOMAIN PlayerIds -> BOOLEAN]}

\* At most one attendance record per player, as toggleAttendance keeps it
AttendanceRecords(eid, pid) ==
  {<<>>} \cup {<<[eventId |-> eid, playerId |-> pid, isGoing |-> g, needsRide |-> r]>> :
                 g \in BOOLEAN, r \in BOOLEAN}

AttendanceLists(eid) ==
  {Pick(f, Len(PlayerIds)) :
     f \in {g \in [DOMAIN PlayerIds -> UNION {AttendanceRecords(eid, PlayerIds[i]) : i \in DOMAIN PlayerIds}] :
              \A i \in DOMAIN PlayerIds : g[i] \in AttendanceRecords(eid, PlayerIds[i])}}

\* At most one availability record per driver, as toggleDriver keeps it
DrivingRecords(eid, did, seats, childSeats) ==
  {<<[eventId |-> eid, driverId |-> did, isDriving |-> TRUE, direction |-> "both",
      availableSeatsTotal |-> n, availableChildSeats |-> c]>> :
     n \in seats, c \in childSeats}

IdleRecords(eid, did) ==
  {<<>>, <<[eventId |-> eid, driverId |-> did, isDriving |-> FALSE, direction |-> "to",
            availableSeatsTotal |-> MaxSeats, availableChildSeats |-> MaxChildSeats]>>}

EventDriverRecords(eid, did) ==
  DrivingRecords(eid, did, 0..MaxSeats, 0..MaxChildSeats) \cup IdleRecords(eid, did)

EventDriverLists(eid) ==
  {a \o b : a \in EventDriverRecords(eid, DriverIds[1]),
            b \in EventDriverRecords(eid, DriverIds[2])}

\* A rule that vetoes carries no preference the generator reads
Rules ==
  [driverId : Range(DriverIds), playerId : Range(PlayerIds),
   allowed : {TRUE}, preference : Preferences]
  \cup [driverId : Range(DriverIds), playerId : Range(PlayerIds),
        allowed : {FALSE}, preference : {"none"}]

\* No code writes the rule store and nothing keeps its (driver, player) keys
\* unique: lists of at most two rules, in either order, duplicates included
RuleLists == {<<>>} \cup {<<r>> : r \in Rules} \cup {<<r, q>> : r \in Rules, q \in Rules}

Everybody(eid) ==
  [i \in DOMAIN PlayerIds |->
     [eventId |-> eid, playerId |-> PlayerIds[i], isGoing |-> TRUE, needsRide |-> TRUE]]

\* The drivers of the Drivers page, with their seats
DriverList(seats, childSeats) ==
  [i \in DOMAIN DriverIds |->
     [id |-> DriverIds[i], maxSeatsTotal |-> seats[i], maxChildSeats |-> childSeats[i]]]

\* deleteItem('players', pid): the attendance records of the player stay
Deleted(roster, pid) == Filter(roster, LAMBDA p : p.id # pid)

\* The stored data of event e1 the generator is run on: every driver setup
\* without rules; every attendance list with one driver; a roster that lost a
\* player whose attendance record stayed; every rule list with two driving
\* drivers
InitGen ==
  /\ allDrivers = DriverList([i \in DOMAIN DriverIds |-> MaxSeats],
                             [i \in DOMAIN DriverIds |-> MaxChildSeats])
  /\ events = <<"e1">>
  /\ \/ /\ players \in Rosters
        /\ allEligibility = <<>>
        /\ dbAttendance = Everybody("e1")
        /\ dbEventDrivers \in EventDriverLists("e1")
     \/ /\ players \in Rosters
        /\ allEligibility = <<>>
        /\ dbAttendance \in AttendanceLists("e1")
        /\ dbEventDrivers \in DrivingRecords("e1", DriverIds[1], 0..MaxSeats, 0..MaxChildSeats)
     \/ /\ players \in {Deleted(r, pid) : r \in Rosters, pid \in Range(PlayerIds)}
        /\ allEligibility = <<>>
        /\ dbAttendance = Everybody("e1")
        /\ dbEventDrivers \in DrivingRecords("e1", DriverIds[1], 0..MaxSeats, 0..MaxChildSeats)
     \/ /\ players \in Rosters
        /\ allEligibility \in RuleLists
        /\ dbAttendance = Everybody("e1")
        /\ dbEventDrivers \in
             {a \o b : a \in DrivingRecords("e1", DriverIds[1], 1..MaxSeats, 0..MaxChildSeats),
                       b \in DrivingRecords("e1", DriverIds[2], {1}, 0..MaxChildSeats)}
  /\ dbAssignments = <<>>
  /\ view = "eventDetail"
  /\ currentEventId = "e1"
  /\ assignments = <<>>
  /\ eventDrivers = dbEventDrivers
  /\ localAttendance = dbAttendance
  /\ localEventDrivers = dbEventDrivers
  /\ draggedPlayerId = NULL
  /\ lastCall = NoCall

\* The attendance records of event eid that say pids go and need a ride
Riding(eid, pids) ==
  [i \in DOMAIN pids |->
     [eventId |-> eid, playerId |-> pids[i], isGoing |-> TRUE, needsRide |-> TRUE]]

\* An installation with two players (the first needs a child seat and must
\* not ride with d1) and two events, nothing generated yet: both ride to e1
\* with d1 (one seat, no child seat) and d2 (one seat, one child seat)
\* driving, the first rides to e2 with d1 driving
Init ==
  /\ players = <<[id |-> "p1", needsChildSeat |-> TRUE],
                 [id |-> "p2", needsChildSeat |-> FALSE]>>
  /\ allDrivers = DriverList([i \in DOMAIN DriverIds |-> MaxSeats],
                             [i \in DOMAIN DriverIds |-> MaxChildSeats])
  /\ events = <<"e1", "e2">>
  /\ allEligibility = <<[driverId |-> "d1", playerId |-> "p1", allowed |-> FALSE,
                          preference |-> "none"]>>
  /\ dbAttendance = Riding("e1", <<"p1", "p2">>) \o Riding("e2", <<"p1">>)
  /\ dbEventDrivers \in
       {a \o b \o c :
          a \in DrivingRecords("e1", "d1", {1}, {0}),
          b \in DrivingRecords("e1", "d2", {1}, {1}),
          c \in DrivingRecords("e2", "d1", {1}, {1})}
  /\ dbAssignments = <<>>
  /\ view = "eventDetail"
  /\ currentEventId = "e1"
  /\ assignments = <<>>
  /\ eventDrivers = OfEvent(dbEventDrivers, "e1")
  /\ localAttendance = OfEvent(dbAttendance, "e1")
  /\ localEventDrivers = OfEvent(dbEventDrivers, "e1")
  /\ draggedPlayerId = NULL
  /\ lastCall = NoCall

Next ==
  \/ \E eid \in Range(events) : navigateToEvent(eid)
  \/ onBack
  \/ generateCarpool
  \/ \E pid \in Range(PlayerIds) : dragStart(pid)
  \/ \E t \in DropTargets, seed \in Seeds : handleDrop(t, seed)
  \/ \E did \in ToggledDrivers : toggleDriver(did, "isDriving", NULL)

Spec == Init /\ [][Next]_vars

NextGen == generateCarpool

SpecGen == InitGen /\ [][NextGen]_vars

\* An availability record of a driving driver as another writer of
\* tc_eventDrivers may have left it: either seat count can be missing
SparseRecords(eid, did) ==
  {<<[eventId |-> eid, driverId |-> did, isDriving |-> TRUE, direction |-> "both"]
       @@ Field("availableSeatsTotal", hasSeats, n)
       @@ Field("availableChildSeats", hasChildSeats, c)>> :
     hasSeats \in BOOLEAN, hasChildSeats \in BOOLEAN,
     n \in 1..MaxSeats, c \in 0..MaxChildSeats}

\* The generator run on stored availability records that lack a seat count:
\* everybody rides, no rules, d1 driving and d2 driving or not
InitSparse ==
  /\ players \in Rosters
  /\ allDrivers = DriverList([i \in DOMAIN DriverIds |-> MaxSeats],
                             [i \in DOMAIN DriverIds |-> MaxChildSeats])
  /\ events = <<"e1">>
  /\ allEligibility = <<>>
  /\ dbAttendance = Everybody("e1")
  /\ dbEventDrivers \in
       {a \o b : a \in {r \in SparseRecords("e1", DriverIds[1]) :
                          ~Has(r[1], "availableSeatsTotal") \/ ~Has(r[1], "availableChildSeats")},
                 b \in {<<>>} \cup DrivingRecords("e1", DriverIds[2], {1}, {1})}
  /\ dbAssignments = <<>>
  /\ view = "eventDetail"
  /\ currentEventId = "e1"
  /\ assignments = <<>>
  /\ eventDrivers = dbEventDrivers
  /\ localAttendance = dbAttendance
  /\ localEventDrivers = dbEventDrivers
  /\ draggedPlayerId = NULL
  /\ lastCall = NoCall

NextSparse == generateCarpool

\* The attendance tab of the two events of Init
NextAttendance ==
  \/ \E pid \in Range(PlayerIds), field \in {"isGoing", "needsRide"} :
        toggleAttendance(pid, field)
  \/ saveAttendance
  \/ \E eid \in Range(events) : navigateToEvent(eid)
  \/ onBack

SpecAttendance == Init /\ [][NextAttendance]_vars

\* The events list and the event screens: events are created and deleted,
\* carpools generated and players dragged, the first player's attendance and
\* the first driver's availability are changed
NextEvents ==
  \/ \E eid \in Range(events) : navigateToEvent(eid)
  \/ onBack
  \/ \E id \in EventIds : createEvent(id)
  \/ \E id \in Range(events), confirmed \in BOOLEAN : deleteEvent(id, confirmed)
  \/ generateCarpool
  \/ \E pid \in Range(PlayerIds) : dragStart(pid)
  \/ \E t \in DropTargets, seed \in Seeds : handleDrop(t, seed)
  \/ \E did \in ToggledDrivers : toggleDriver(did, "isDriving", NULL)
  \/ toggleAttendance("p1", "isGoing")

\* An installation with one player and two events, nothing generated yet: the
\* player rides to both, d1 drives to both with one seat; the events list is
\* shown
InitEvents ==
  /\ view = "events"
  /\ players = <<[id |-> "p1", needsChildSeat |-> FALSE]>>
  /\ allDrivers = DriverList([i \in DOMAIN DriverIds |-> MaxSeats],
                             [i \in DOMAIN DriverIds |-> MaxChildSeats])
  /\ events = <<"e1", "e2">>
  /\ allEligibility = <<>>
  /\ dbAttendance = Riding("e1", <<"p1">>) \o Riding("e2", <<"p1">>)
  /\ dbEventDrivers \in
       {a \o b : a \in DrivingRecords("e1", "d1", {1}, {1}),
                 b \in DrivingRecords("e2", "d1", {1}, {1})}
  /\ dbAssignments = <<>>
  /\ currentEventId = NULL
  /\ assignments = <<>>
  /\ eventDrivers = <<>>
  /\ localAttendance = <<>>
  /\ localEventDrivers = <<>>
  /\ draggedPlayerId = NULL
  /\ lastCall = NoCall

SpecEvents == InitEvents /\ [][NextEvents]_vars

SpecSparse == InitSparse /\ [][NextSparse]_vars



-----------------------------------------------------------------------------
(* Properties of one run of the generator, read off lastCall *)

RosterIds == {players[i].id : i \in DOMAIN players}

NeedsChildSeat(pid) == \E i \in DOMAIN players : players[i].id = pid /\ players[i].needsChildSeat

\* The positions of a list of assignments that satisfy Test
Positions(seq, Test(_)) == {j \in DOMAIN seq : Test(seq[j])}

\* The players the run gave to driver did
Riders(did) == Positions(lastCall.newAssignments, LAMBDA a : a.driverId = did)

ChildRiders(did) ==
  Positions(lastCall.newAssignments, LAMBDA a : a.driverId = did /\ NeedsChildSeat(a.playerId))

\* C2: in the output of a run, every active driver carries at most its
\* availableSeatsTotal players and at most its availableChildSeats players
\* that need a child seat.
C2_CapacityRespected ==
  Generated =>
    \A i \in DOMAIN lastCall.activeDrivers :
      LET d == lastCall.activeDrivers[i]
      IN  /\ Cardinality(Riders(d.driverId)) <= d.availableSeatsTotal
          /\ Cardinality(ChildRiders(d.driverId)) <= d.availableChildSeats

\* A run that filled a driver's seats and its child seats and left a player over
C2_Witness ==
  /\ Generated
  /\ \E i \in DOMAIN lastCall.activeDrivers :
       LET d == lastCall.activeDrivers[i]
       IN  /\ d.availableSeatsTotal > 0
           /\ d.availableChildSeats > 0
           /\ Cardinality(Riders(d.driverId)) = d.availableSeatsTotal
           /\ Cardinality(ChildRiders(d.driverId)) = d.availableChildSeats
  /\ lastCall.unassignedIds # <<>>

\* Some rule of the list vetoes the pair
SomeRuleVetoes(did, pid) ==
  \E i \in DOMAIN allEligibility :
    /\ allEligibility[i].driverId = did
    /\ allEligibility[i].playerId = pid
    /\ ~allEligibility[i].allowed

\* The first rule of the list for the pair vetoes it
FirstRuleVetoes(did, pid) ==
  \E i \in DOMAIN allEligibility :
    /\ allEligibility[i].driverId = did
    /\ allEligibility[i].playerId = pid
    /\ ~allEligibility[i].allowed
    /\ \A k \in 1..(i - 1) :
         ~(allEligibility[k].driverId = did /\ allEligibility[k].playerId = pid)

\* C3 as stated: no emitted assignment pairs a driver with a player for whom
\* a rule with allowed = false exists.
C3_NoVetoedPairAnyRule ==
  Generated =>
    \A j \in DOMAIN lastCall.newAssignments :
      ~SomeRuleVetoes(lastCall.newAssignments[j].driverId, lastCall.newAssignments[j].playerId)

\* C3 as amended: no emitted assignment pairs a driver with a player when the
\* first rule listed for that pair has allowed = false.
C3_NoVetoedPairFirstRule ==
  Generated =>
    \A j \in DOMAIN lastCall.newAssignments :
      ~FirstRuleVetoes(lastCall.newAssignments[j].driverId, lastCall.newAssignments[j].playerId)

\* A run in which a vetoed driver had a free seat at the end and the vetoed
\* player rides with the other driver
C3_Witness ==
  /\ Generated
  /\ \E j \in DOMAIN lastCall.newAssignments, b \in DOMAIN lastCall.buckets :
       /\ FirstRuleVetoes(lastCall.buckets[b].driverId, lastCall.newAssignments[j].playerId)
       /\ lastCall.buckets[b].remainingSeats > 0
       /\ lastCall.newAssignments[j].driverId \notin {UNASSIGNED, lastCall.buckets[b].driverId}


\* C5 as stated: a run that follows a run on the same players, attendance,
\* availabilities and rules emits the same list, ids included.
C5_SameOutputWithIds ==
  [][(Generated' /\ lastCall'.repeated)
       => lastCall'.newAssignments = lastCall.newAssignments]_vars

\* C5 as amended: such a run emits the same list up to the record ids: the
\* same eventId, driverId, playerId and direction, in the same order.
C5_SameOutputUpToIds ==
  [][(Generated' /\ lastCall'.repeated)
       => WithoutIds(lastCall'.newAssignments) = WithoutIds(lastCall.newAssignments)]_vars

\* The second of two runs on the same input, with a tie between two drivers
\* and a player left over
C5_Witness ==
  /\ Generated
  /\ lastCall.repeated
  /\ Len(lastCall.buckets) >= 2
  /\ \E j \in DOMAIN lastCall.newAssignments : lastCall.newAssignments[j].driverId = UNASSIGNED
  /\ \E j \in DOMAIN lastCall.newAssignments : lastCall.newAssignments[j].driverId # UNASSIGNED

\* An attendance record of the run says the player goes and needs a ride
IsCandidate(pid) ==
  \E i \in DOMAIN lastCall.attendance :
    /\ lastCall.attendance[i].playerId = pid
    /\ lastCall.attendance[i].isGoing
    /\ lastCall.attendance[i].needsRide

\* An attendance record of the run has these two flags for the player
HasAttendance(pid, going, ride) ==
  \E i \in DOMAIN lastCall.attendance :
    /\ lastCall.attendance[i].playerId = pid
    /\ lastCall.attendance[i].isGoing = going
    /\ lastCall.attendance[i].needsRide = ride

\* C9: a run emits exactly one record for each roster player whose attendance
\* record has isGoing and needsRide, and no record for anybody else.
C9_ExactlyTheCandidates ==
  Generated =>
    /\ \A i \in DOMAIN players :
         Cardinality(Positions(lastCall.newAssignments,
                               LAMBDA a : a.playerId = players[i].id))
           = IF IsCandidate(players[i].id) THEN 1 ELSE 0
    /\ \A j \in DOMAIN lastCall.newAssignments :
         lastCall.newAssignments[j].playerId \in RosterIds

\* A run over a candidate, a player going without needing a ride and a player
\* not going whose needsRide is set
C9_Witness ==
  /\ Generated
  /\ \E p \in RosterIds : IsCandidate(p)
  /\ \E p \in RosterIds : HasAttendance(p, TRUE, FALSE)
  /\ \E p \in RosterIds : HasAttendance(p, FALSE, TRUE)
  /\ Len(lastCall.newAssignments) = 1

\* The bucket cannot take the player: no seat, no child seat for a player that
\* needs one, or a veto
Infeasible(bucket, pid) ==
  \/ bucket.remainingSeats <= 0
  \/ NeedsChildSeat(pid) /\ bucket.remainingChildSeats <= 0
  \/ FirstRuleVetoes(bucket.driverId, pid)

\* C10: every candidate gets a record, in processing order; a candidate with
\* no feasible bucket at its turn gets an unassigned record and is in the
\* unassigned list; the reported count is the number of unassigned records.
C10_UnassignedNeverDropped ==
  Generated =>
    /\ Len(lastCall.newAssignments) = Len(lastCall.sortedPlayers)
    /\ \A k \in DOMAIN lastCall.sortedPlayers :
         LET pid == lastCall.sortedPlayers[k].id
         IN  /\ lastCall.newAssignments[k].playerId = pid
             /\ (\A b \in DOMAIN lastCall.bucketsBefore[k] :
                    Infeasible(lastCall.bucketsBefore[k][b], pid))
                  => /\ lastCall.newAssignments[k].driverId = UNASSIGNED
                     /\ pid \in Range(lastCall.unassignedIds)
    /\ lastCall.unassignedCount
         = Cardinality(Positions(lastCall.newAssignments, LAMBDA a : a.driverId = UNASSIGNED))

\* A candidate left unassigned at a turn where a bucket had a seat (and a
\* child seat) for it, every such bucket being vetoed
C10_Witness ==
  /\ Generated
  /\ \E k \in DOMAIN lastCall.sortedPlayers :
       LET pid == lastCall.sortedPlayers[k].id
       IN  /\ lastCall.newAssignments[k].driverId = UNASSIGNED
           /\ pid \in Range(lastCall.unassignedIds)
           /\ NeedsChildSeat(pid)
           /\ \E b \in DOMAIN lastCall.bucketsBefore[k] :
                /\ lastCall.bucketsBefore[k][b].remainingSeats > 0
                /\ lastCall.bucketsBefore[k][b].remainingChildSeats > 0
                /\ FirstRuleVetoes(lastCall.bucketsBefore[k][b].driverId, pid)

-----------------------------------------------------------------------------
(* Properties of the assignments store under generateCarpool and handleDrop *)

\* The stored assignments of player pid for event eid
AssignmentsOf(store, eid, pid) ==
  Filter(store, LAMBDA a : a.eventId = eid /\ a.playerId = pid)

\* C1: after any sequence of generateCarpool and handleDrop calls the store
\* holds at most one assignment per (event, player).
C1_OneAssignmentPerEventAndPlayer ==
  \A eid \in Range(events), pid \in RosterIds :
     Len(AssignmentsOf(dbAssignments, eid, pid)) <= 1

\* A drop that followed a run, with both players assigned for e1 and the
\* records of e2 in the store as well
C1_Witness ==
  /\ lastCall.op = "handleDrop"
  /\ lastCall.previousOp = "generateCarpool"
  /\ \A pid \in RosterIds : Len(AssignmentsOf(dbAssignments, "e1", pid)) = 1
  /\ Len(AssignmentsOf(dbAssignments, "e2", "p1")) = 1

\* No availability record of the drivers tab has isDriving
NoDriverIsDriving == \A d \in Range(localEventDrivers) : ~d.isDriving

\* C4: a call of generateCarpool while no availability record has isDriving
\* reports "No drivers marked for this event!", produces no assignment and no
\* unassigned entry, and leaves the store and the board as they were.
C4_NoDriversAborts ==
  [][(NoDriverIsDriving /\ generateCarpool) =>
        /\ lastCall'.alert = NoDriversAlert
        /\ lastCall'.newAssignments = <<>>
        /\ lastCall'.unassignedIds = <<>>
        /\ dbAssignments' = dbAssignments
        /\ assignments' = assignments]_vars

\* The run was refused with earlier assignments of the event in the store
C4_Witness ==
  /\ lastCall.op = "generateCarpool"
  /\ lastCall.alert = NoDriversAlert
  /\ NoDriverIsDriving
  /\ OfEvent(dbAssignments, lastCall.eventId) # <<>>

\* The records of event eid that belong to a player other than pid
OthersOf(store, eid, pid) ==
  {a \in Range(store) : a.eventId = eid /\ a.playerId # pid}

\* handleDrop(t) with a player being dragged
Drop(t) == draggedPlayerId # NULL /\ \E seed \in Seeds : handleDrop(t, seed)

\* C6: handleDrop of player P changes only P's assignment: the records of the
\* event that belong to the other players are the same before and after, id,
\* driverId, playerId and direction included.
C6_DropLeavesTheOthers ==
  [][\A t \in DropTargets :
        Drop(t) => OthersOf(dbAssignments', currentEventId, draggedPlayerId)
                     = OthersOf(dbAssignments, currentEventId, draggedPlayerId)]_vars

\* The number of stored records of the displayed event with driver did
DriverLoad(did) == Len(Filter(assignments, LAMBDA a : a.driverId = did))

ChildSeatLoad(did) ==
  Len(Filter(assignments, LAMBDA a : a.driverId = did /\ NeedsChildSeat(a.playerId)))

\* A player was dropped on a driver who now carries more than its seats,
\* while another player keeps a record of the event
C6_Witness ==
  /\ lastCall.op = "handleDrop"
  /\ OthersOf(dbAssignments, lastCall.eventId, lastCall.playerId) # {}
  /\ \E d \in Range(eventDrivers) :
        /\ d.driverId = lastCall.targetDriverId
        /\ d.isDriving
        /\ DriverLoad(d.driverId) > d.availableSeatsTotal

\* C7: handleDrop never rejects: dropping P on any column T, the Unassigned
\* column included, leaves exactly one record for P in the event, with
\* driverId T and direction both.
C7_DropNeverRejects ==
  [][\A t \in DropTargets :
        Drop(t) =>
          LET mine == AssignmentsOf(dbAssignments', currentEventId, draggedPlayerId)
          IN  /\ Len(mine) = 1
              /\ mine[1].driverId = t
              /\ mine[1].direction = "both"]_vars

\* The board after a drop on a driver who is now over its seats and over its
\* child seats, and whom a rule forbids for the dropped player
C7_Witness ==
  /\ lastCall.op = "handleDrop"
  /\ \E a \in Range(assignments) :
        a.playerId = lastCall.playerId /\ a.driverId = lastCall.targetDriverId
  /\ NeedsChildSeat(lastCall.playerId)
  /\ ~isAllowed(lastCall.targetDriverId, lastCall.playerId)
  /\ \E d \in Range(eventDrivers) :
        /\ d.driverId = lastCall.targetDriverId
        /\ d.isDriving
        /\ DriverLoad(d.driverId) > d.availableSeatsTotal
        /\ ChildSeatLoad(d.driverId) > d.availableChildSeats

\* C8: after a run that got past the driver check, the stored assignments of
\* the event are exactly the records the run emitted: every assignment the
\* event had before, manual overrides included, is gone.
C8_RunReplacesTheEvent ==
  Generated => OfEvent(dbAssignments, lastCall.eventId) = lastCall.newAssignments

\* A run on an event whose board had just been rearranged by hand
C8_Witness ==
  /\ Generated
  /\ lastCall.previousOp = "handleDrop"
  /\ lastCall.newAssignments # <<>>
  /\ OfEvent(dbAssignments, lastCall.eventId) = lastCall.newAssignments

-----------------------------------------------------------------------------
(* Properties of the order and of the steps of one run *)

\* The position of a player in the roster
RosterPos(pid) == CHOOSE i \in DOMAIN players : players[i].id = pid

ScoreOfPreference(pref) ==
  CASE pref = "always" -> 10 + 50
    [] pref = "prefer" -> 10 + 20
    [] OTHER -> 10

\* The buckets that can take the k-th candidate at its turn
FeasibleAt(k) ==
  {b \in DOMAIN lastCall.bucketsBefore[k] :
     ~Infeasible(lastCall.bucketsBefore[k][b], lastCall.sortedPlayers[k].id)}

\* The score of bucket b for the k-th candidate
ScoreAt(k, b) ==
  ScoreOfPreference(getPreference(lastCall.bucketsBefore[k][b].driverId,
                                  lastCall.sortedPlayers[k].id))

\* C12: the bucket chosen for a candidate is, among the buckets feasible at
\* its turn, the first of those with the highest score, the score being 10,
\* plus 50 for the preference always, plus 20 for prefer.
C12_FirstOfTheBestBuckets ==
  Generated =>
    \A k \in DOMAIN lastCall.sortedPlayers :
      /\ \A b \in DOMAIN lastCall.bucketsBefore[k] :
           Score(lastCall.bucketsBefore[k][b].driverId, lastCall.sortedPlayers[k].id)
             = ScoreAt(k, b)
      /\ FeasibleAt(k) # {} =>
           \E b \in FeasibleAt(k) :
             /\ lastCall.bucketsBefore[k][b].driverId = lastCall.newAssignments[k].driverId
             /\ \A c \in FeasibleAt(k) :
                  /\ ScoreAt(k, c) <= ScoreAt(k, b)
                  /\ ScoreAt(k, c) = ScoreAt(k, b) => b <= c

\* A run in which one candidate had two feasible buckets of equal score and
\* got the first, with more seats left than the second, and another candidate
\* got the second of two feasible buckets for its higher score
C12_Witness ==
  /\ Generated
  /\ \E k \in DOMAIN lastCall.sortedPlayers :
       /\ FeasibleAt(k) = {1, 2}
       /\ ScoreAt(k, 1) = ScoreAt(k, 2)
       /\ lastCall.bucketsBefore[k][1].remainingSeats > lastCall.bucketsBefore[k][2].remainingSeats
       /\ lastCall.newAssignments[k].driverId = lastCall.bucketsBefore[k][1].driverId
  /\ \E k \in DOMAIN lastCall.sortedPlayers :
       /\ FeasibleAt(k) = {1, 2}
       /\ ScoreAt(k, 1) < ScoreAt(k, 2)
       /\ lastCall.newAssignments[k].driverId = lastCall.bucketsBefore[k][2].driverId

\* The entry of the Drivers page for driver did
DriverDef(did) == allDrivers[CHOOSE i \in DOMAIN allDrivers : allDrivers[i].id = did]

\* C13: for an active availability record that lacks availableSeatsTotal
\* (availableChildSeats) the bucket starts with the driver's maxSeatsTotal
\* (maxChildSeats), and the driver gets at most that many players (players
\* that need a child seat).
C13_MissingSeatsFallBack ==
  (Generated /\ lastCall.sortedPlayers # <<>>) =>
    \A i \in DOMAIN lastCall.activeDrivers :
      LET d == lastCall.activeDrivers[i]
          start == lastCall.bucketsBefore[1][i]
      IN  /\ ~Has(d, "availableSeatsTotal") =>
               /\ Has(start, "remainingSeats")
               /\ start.remainingSeats = DriverDef(d.driverId).maxSeatsTotal
               /\ Cardinality(Riders(d.driverId)) <= DriverDef(d.driverId).maxSeatsTotal
          /\ ~Has(d, "availableChildSeats") =>
               /\ Has(start, "remainingChildSeats")
               /\ start.remainingChildSeats = DriverDef(d.driverId).maxChildSeats
               /\ Cardinality(ChildRiders(d.driverId)) <= DriverDef(d.driverId).maxChildSeats

\* The attendance records of the run whose player is in the roster
RosterAttendance ==
  Filter(lastCall.attendance, LAMBDA a : a.playerId \in RosterIds)

\* The loop run for the candidates of a list of attendance records
RunOn(attendance) ==
  LET sorted == SortPlayers(goingPlayersOf(attendance))
  IN  ProcessPlayers(sorted, "s1", lastCall.eventId,
                     MakeBuckets(lastCall.activeDrivers), Len(sorted))

\* C14: an attendance record whose player is not in the roster gets no
\* assignment record and no seat, and the run is the run on the attendance
\* list without such records: the same assignments (up to their ids), the
\* same unassigned list and the same buckets at the end.
C14_StrayAttendanceIgnored ==
  Generated =>
    /\ \A j \in DOMAIN lastCall.newAssignments :
         lastCall.newAssignments[j].playerId \in RosterIds
    /\ \A b \in DOMAIN lastCall.buckets :
         Range(lastCall.buckets[b].assignedPlayerIds) \subseteq RosterIds
    /\ \E ref \in {RunOn(RosterAttendance)} :
         /\ WithoutIds(lastCall.newAssignments) = WithoutIds(ref.newAssignments)
         /\ lastCall.unassignedIds = ref.unassignedIds
         /\ lastCall.buckets = ref.buckets

\* A run with a going, ride-needing attendance record of a deleted player,
\* in which a roster player got a seat and a seat stayed free
C14_Witness ==
  /\ Generated
  /\ \E i \in DOMAIN lastCall.attendance :
       /\ lastCall.attendance[i].playerId \notin RosterIds
       /\ lastCall.attendance[i].isGoing
       /\ lastCall.attendance[i].needsRide
  /\ \E b \in DOMAIN lastCall.buckets :
       /\ lastCall.buckets[b].assignedPlayerIds # <<>>
       /\ lastCall.buckets[b].remainingSeats > 0

\* The driver the run gave the player
DriverOf(pid) ==
  lastCall.newAssignments[CHOOSE j \in DOMAIN lastCall.newAssignments :
                            lastCall.newAssignments[j].playerId = pid].driverId

\* One active driver with 2 seats and 1 child seat, no rules, three
\* candidates of which exactly one needs a child seat
ThreeForTwoSeats ==
  /\ Generated
  /\ allEligibility = <<>>
  /\ Len(lastCall.activeDrivers) = 1
  /\ lastCall.activeDrivers[1].availableSeatsTotal = 2
  /\ lastCall.activeDrivers[1].availableChildSeats = 1
  /\ Len(lastCall.sortedPlayers) = 3
  /\ Cardinality({k \in 1..3 : lastCall.sortedPlayers[k].needsChildSeat}) = 1

\* C15: with one active driver of 2 seats and 1 child seat, no rules and three
\* candidates of which only one needs a child seat, that one rides with the
\* driver, exactly one of the two others rides with the driver and the other
\* is unassigned.
C15_ThreeForTwoSeats ==
  ThreeForTwoSeats =>
    LET d == lastCall.activeDrivers[1].driverId
        ids == {lastCall.sortedPlayers[k].id : k \in 1..3}
        others == {pid \in ids : ~NeedsChildSeat(pid)}
    IN  /\ \A pid \in ids \ others : DriverOf(pid) = d
        /\ Cardinality({pid \in others : DriverOf(pid) = d}) = 1
        /\ Cardinality({pid \in others : DriverOf(pid) = UNASSIGNED}) = 1

\* The scenario with the child-seat player last in the roster
C15_Witness ==
  /\ ThreeForTwoSeats
  /\ players[3].needsChildSeat
  /\ DriverOf(players[3].id) = lastCall.activeDrivers[1].driverId
  /\ DriverOf(players[2].id) = UNASSIGNED

\* The buckets after the k-th candidate
BucketsAfter(k) ==
  IF k < Len(lastCall.bucketsBefore) THEN lastCall.bucketsBefore[k + 1] ELSE lastCall.buckets

\* C17: with availableSeatsTotal and availableChildSeats not negative, every
\* bucket has remainingSeats >= 0 and remainingChildSeats >= 0 before and
\* after every candidate of a run.
C17_CountersNeverNegative ==
  (/\ Generated
   /\ \A i \in DOMAIN lastCall.activeDrivers :
        /\ lastCall.activeDrivers[i].availableSeatsTotal >= 0
        /\ lastCall.activeDrivers[i].availableChildSeats >= 0)
  => \A k \in DOMAIN lastCall.bucketsBefore :
       \A b \in DOMAIN lastCall.buckets :
          /\ lastCall.bucketsBefore[k][b].remainingSeats >= 0
          /\ lastCall.bucketsBefore[k][b].remainingChildSeats >= 0
          /\ BucketsAfter(k)[b].remainingSeats >= 0
          /\ BucketsAfter(k)[b].remainingChildSeats >= 0

\* A candidate had its turn when a bucket that had started with a seat and a
\* child seat was down to none of either
C17_Witness ==
  /\ Generated
  /\ \E k \in DOMAIN lastCall.bucketsBefore, b \in DOMAIN lastCall.buckets :
       /\ lastCall.activeDrivers[b].availableSeatsTotal > 0
       /\ lastCall.activeDrivers[b].availableChildSeats > 0
       /\ lastCall.bucketsBefore[k][b].remainingSeats = 0
       /\ lastCall.bucketsBefore[k][b].remainingChildSeats = 0
       /\ lastCall.sortedPlayers[k].needsChildSeat

\* C18: a candidate changes at most one bucket: the chosen one loses one seat,
\* loses one child seat exactly when the player needs one, and gets the
\* player's id at the end of its list; no other bucket changes, and none at
\* all when the candidate is unassigned.
C18_OneBucketPerCandidate ==
  Generated =>
    \A k \in DOMAIN lastCall.sortedPlayers :
      LET before == lastCall.bucketsBefore[k]
          after == BucketsAfter(k)
          player == lastCall.sortedPlayers[k]
          chosen == lastCall.newAssignments[k].driverId
      IN  IF chosen = UNASSIGNED
          THEN after = before
          ELSE \E b \in DOMAIN before :
                 /\ before[b].driverId = chosen
                 /\ after[b].driverId = chosen
                 /\ after[b].remainingSeats = before[b].remainingSeats - 1
                 /\ after[b].remainingChildSeats =
                      before[b].remainingChildSeats - (IF player.needsChildSeat THEN 1 ELSE 0)
                 /\ after[b].assignedPlayerIds = Append(before[b].assignedPlayerIds, player.id)
                 /\ \A c \in DOMAIN before : c # b => after[c] = before[c]

\* A run with two buckets in which a child-seat player took a seat of one, a
\* player without that need took a seat of a bucket that had a child seat
\* left, and a third player found no bucket
C18_Witness ==
  /\ Generated
  /\ Len(lastCall.buckets) = 2
  /\ \E k \in DOMAIN lastCall.sortedPlayers :
       /\ lastCall.sortedPlayers[k].needsChildSeat
       /\ lastCall.newAssignments[k].driverId # UNASSIGNED
  /\ \E k \in DOMAIN lastCall.sortedPlayers, b \in DOMAIN lastCall.buckets :
       /\ ~lastCall.sortedPlayers[k].needsChildSeat
       /\ lastCall.newAssignments[k].driverId = lastCall.bucketsBefore[k][b].driverId
       /\ lastCall.bucketsBefore[k][b].remainingChildSeats > 0
  /\ \E k \in DOMAIN lastCall.sortedPlayers :
       lastCall.newAssignments[k].driverId = UNASSIGNED

-----------------------------------------------------------------------------
(* More properties of the assignments store *)

\* C16: a run on the players, attendance, availabilities and rules of an
\* earlier run of the same visit that found the event without assignments
\* gives every player the driver that run gave it, and the same unassigned
\* list, whatever runs and drops came in between.
C16_RunIgnoresTheBoard ==
  (/\ Generated
   /\ lastCall.fresh.made
   /\ lastCall.fresh.attendance = lastCall.attendance
   /\ lastCall.fresh.activeDrivers = lastCall.activeDrivers)
  => /\ WithoutIds(lastCall.newAssignments) = lastCall.fresh.assignments
     /\ lastCall.unassignedIds = lastCall.fresh.unassignedIds

\* A run right after a drop, on the input of the run that had found the event
\* without assignments
C16_Witness ==
  /\ Generated
  /\ lastCall.previousOp = "handleDrop"
  /\ lastCall.fresh.made
  /\ lastCall.fresh.attendance = lastCall.attendance
  /\ lastCall.fresh.activeDrivers = lastCall.activeDrivers
  /\ Len(lastCall.newAssignments) = 2

\* C19: a run or a drop on the displayed event leaves the stored assignments
\* of every other event as they were.
C19_OtherEventsUntouched ==
  [][(generateCarpool \/ \E t \in DropTargets : Drop(t)) =>
        \A eid \in Range(events) \ {currentEventId} :
           OfEvent(dbAssignments', eid) = OfEvent(dbAssignments, eid)]_vars

\* A drop that followed a run on e2 while e1 had its two assignments
C19_Witness ==
  /\ lastCall.op = "handleDrop"
  /\ lastCall.previousOp = "generateCarpool"
  /\ lastCall.eventId = "e2"
  /\ Len(OfEvent(dbAssignments, "e1")) = 2
  /\ Len(OfEvent(dbAssignments, "e2")) = 1

-----------------------------------------------------------------------------
(* Properties of the attendance tab *)

\* No record of the list has needsRide without isGoing
RideOnlyWhenGoing(attendance) ==
  \A i \in DOMAIN attendance : attendance[i].needsRide => attendance[i].isGoing

\* C20: toggleAttendance on isGoing leaves the player's record with isGoing
\* flipped and needsRide equal to the new isGoing, whatever needsRide was; and
\* no attendance record, in the tab or saved, ever has needsRide without
\* isGoing.
C20_NeedsRideFollowsGoing ==
  /\ [][\A pid \in RosterIds :
          toggleAttendance(pid, "isGoing") =>
            \E i \in DOMAIN localAttendance' :
              /\ localAttendance'[i].playerId = pid
              /\ localAttendance'[i].isGoing = ~AttendanceOrDefault(pid).isGoing
              /\ localAttendance'[i].needsRide = localAttendance'[i].isGoing]_vars
  /\ [](RideOnlyWhenGoing(localAttendance) /\ RideOnlyWhenGoing(dbAttendance))

\* The tab shows a player toggled to not going and a player going without
\* needing a ride, and the store holds a record made from the default
C20_Witness ==
  /\ \E i \in DOMAIN localAttendance :
       ~localAttendance[i].isGoing /\ ~localAttendance[i].needsRide
  /\ \E i \in DOMAIN localAttendance :
       localAttendance[i].isGoing /\ ~localAttendance[i].needsRide
  /\ \E i \in DOMAIN dbAttendance :
       /\ dbAttendance[i].eventId = "e2"
       /\ dbAttendance[i].playerId = "p2"
       /\ dbAttendance[i].isGoing

-----------------------------------------------------------------------------
(* The buckets a run ends with *)

\* C22: for every candidate a run emits as unassigned and every bucket the
\* run ends with, the driver has a rule with allowed = false for the player,
\* or 0 remaining seats, or 0 remaining child seats while the player needs a
\* child seat; and the three tests of the loop find the bucket infeasible
\* for the player: no seat an unassigned player could use is left over.
C22_NoSeatLeftForTheUnassigned ==
  Generated =>
    \A j \in DOMAIN lastCall.unassignedIds, b \in DOMAIN lastCall.buckets :
      LET pid == lastCall.unassignedIds[j]
          bucket == lastCall.buckets[b]
      IN  /\ \/ SomeRuleVetoes(bucket.driverId, pid)
             \/ bucket.remainingSeats = 0
             \/ NeedsChildSeat(pid) /\ bucket.remainingChildSeats = 0
          /\ Infeasible(bucket, pid)

\* A run that left a player unassigned with two drivers: one is vetoed and
\* ends with a seat, the other had a seat at the start and ends with none
C22_Witness ==
  /\ Generated
  /\ \E j \in DOMAIN lastCall.unassignedIds, b, c \in DOMAIN lastCall.buckets :
       /\ FirstRuleVetoes(lastCall.buckets[b].driverId, lastCall.unassignedIds[j])
       /\ lastCall.buckets[b].remainingSeats > 0
       /\ ~SomeRuleVetoes(lastCall.buckets[c].driverId, lastCall.unassignedIds[j])
       /\ lastCall.activeDrivers[c].availableSeatsTotal > 0
       /\ lastCall.buckets[c].remainingSeats = 0

-----------------------------------------------------------------------------
(* Properties of the events list *)

\* C21: deleting an event removes every stored assignment of that event and
\* leaves the stored assignments of every other event as they were; and
\* whatever is created, generated, dragged and deleted, every stored
\* assignment belongs to an event of the events list.
C21_DeleteTakesItsAssignments ==
  /\ [][\A id \in Range(events) :
          deleteEvent(id, TRUE) =>
            /\ OfEvent(dbAssignments', id) = <<>>
            /\ \A eid \in EventIds \ {id} :
                  OfEvent(dbAssignments', eid) = OfEvent(dbAssignments, eid)]_vars
  /\ [](\A a \in Range(dbAssignments) : a.eventId \in Range(events))

\* An event with stored assignments was deleted while another event keeps
\* its own
C21_Witness ==
  /\ lastCall.op = "deleteEvent"
  /\ lastCall.removed # <<>>
  /\ lastCall.eventId \notin Range(events)
  /\ dbAssignments # <<>>

=============================================================================
